---- MODULE Spec2Model ----
(***************************************************************************)
(* Zenith bot: the single-live-message render tracker (MessageManager,     *)
(* src/main.py) and the balance ledger (BalanceManager,                    *)
(* src/balance_manager.py).                                                *)
(*                                                                         *)
(* Every coroutine is cut at its awaits.  In MessageManager an awaited      *)
(* transport call is two atomic steps: the call taking effect at the       *)
(* transport, and the coroutine resuming with the outcome and running, on  *)
(* the shared user_messages dict, up to its next await; other coroutines   *)
(* may run between the two.  BalanceManager keeps no state of its own, so  *)
(* there each awaited store call, with the local code that follows it, is  *)
(* one step.  A chat is the private chat of its user (chat_id = user_id).  *)
(***************************************************************************)
EXTENDS Integers, Sequences, FiniteSets, TLC

\* ------------------------------------------------------------------ bounds
MaxMsgs == 3            \* message identifiers the transport hands out
MaxAmount == 2          \* largest amount an operation is invoked with

MaxRows == 3            \* rows the transactions table may grow to

Users == {1, 2}         \* the user of the claim and another one
Tasks == {1, 2}         \* handler coroutines in flight: a double submission
MsgIds == 1..MaxMsgs
Procs == {1, 2}         \* ledger operations in flight
Buckets == {"bonus", "rubles"}
PosAmounts == 1..MaxAmount   \* the amounts that meet the precondition amount > 0
None == 0               \* absent key of the user_messages dict

VARIABLES
    user_messages,      \* MessageManager.user_messages: user -> message_id (None = no entry)
    visible,            \* transport: bot messages currently shown in the user's chat
    nextId,             \* transport: next message_id it assigns
    task,               \* the handler coroutines: position, arguments, outcome
    hist,               \* observer: per user, what has happened so far
    balances,           \* store: balances table, user -> bucket -> amount
    transactions,       \* store: transactions table, rows in insertion order
    proc,               \* the BalanceManager coroutines
    pre,                \* observer: the store as the operation running alone found it
    users,              \* store: users table, user -> state column ("absent" = no row)
    handler,            \* the event handlers the dispatcher has started
    content,            \* observer: message_id -> the screen last rendered into it
    cleared,            \* observer: user -> has clear_user_messages run, and a render since
    names,              \* store: users table, user -> name columns ("none" = no row)
    returned            \* observer: the latest call of a Database method and its result

msgVars == <<user_messages, visible, nextId, task, hist>>
ledgerVars == <<balances, transactions, proc, pre>>
rowVars == <<names, returned>>
dirVars == <<users, handler, content, cleared, rowVars>>
vars == <<user_messages, visible, nextId, task, hist, balances, transactions, proc, pre,
          users, handler, content, cleared, names, returned>>

IdleTask ==
    [pc |-> "idle", op |-> "none", user |-> None, mid |-> None,
     ok |-> TRUE, result |-> "none", log |-> <<>>, sawHandle |-> FALSE]

\* todo: the calls the handler still has to make; log: the calls it has made;
\* wrote: its set_user_state updated a row
IdleHandler ==
    [pc |-> "idle", ev |-> "none", user |-> None, user_state |-> "main",
     todo |-> <<>>, log |-> <<>>, raised |-> FALSE, wrote |-> FALSE]

\* no Database method has been called yet
NoCall == [call |-> "none", user |-> None, arg |-> "", ok |-> TRUE, value |-> "none"]

IdleProc ==
    [pc |-> "idle", op |-> "none", user |-> None, to |-> None, balance_type |-> "none",
     amount |-> 0, failed |-> FALSE, result |-> "none"]

Init ==
    /\ user_messages = [u \in Users |-> None]
    /\ visible = [u \in Users |-> {}]
    /\ nextId = 1
    /\ task = [t \in Tasks |-> IdleTask]
    /\ hist = [u \in Users |-> [clean |-> TRUE, rendered |-> FALSE]]
    /\ balances = [u \in Users |-> [b \in Buckets |-> 0]]
    /\ transactions = <<>>
    /\ proc = [p \in Procs |-> IdleProc]
    /\ pre = [balances |-> balances, transactions |-> transactions]
    /\ users = [u \in Users |-> "absent"]
    /\ handler = [h \in Tasks |-> IdleHandler]
    /\ content = [m \in MsgIds |-> "none"]
    /\ cleared = [u \in Users |-> "no"]
    /\ names = [u \in Users |-> "none"]
    /\ returned = NoCall

\* ----------------------------------------------------------------- helpers
Active(t) == task[t].pc \notin {"idle", "done"}
Busy(u) == \E t \in Tasks : Active(t) /\ task[t].user = u
Quiescent(u) == ~Busy(u)
Senders == {t \in Tasks : task[t].op = "send_or_edit" /\ task[t].pc # "done"}
Spoil(u) == [hist EXCEPT ![u].clean = FALSE]

\* ------------------------------------------------- MessageManager (main.py)
\* a render that never looks at the tracked handle and always sends
send_or_edit_message_AlwaysSend(t, u) ==
    /\ task[t].pc = "idle"
    /\ nextId + Cardinality(Senders) <= MaxMsgs
    /\ task' = [task EXCEPT ![t] =
          [IdleTask EXCEPT !.pc = "await_send", !.op = "send_or_edit", !.user = u,
                           !.log = <<"send">>]]
    /\ UNCHANGED <<user_messages, visible, nextId, hist>>
    /\ UNCHANGED ledgerVars

\* send_or_edit_message, from entry to its first await (lines 31-40 / 53);
\* the first guard keeps the message identifiers within MaxMsgs
send_or_edit_message(t, u) ==
    /\ task[t].pc = "idle"
    /\ nextId + Cardinality(Senders) <= MaxMsgs
    /\ IF user_messages[u] # None
         THEN task' = [task EXCEPT ![t] =
                 [IdleTask EXCEPT !.pc = "await_edit", !.op = "send_or_edit", !.user = u,
                                  !.mid = user_messages[u], !.log = <<"edit">>]]
         ELSE task' = [task EXCEPT ![t] =
                 [IdleTask EXCEPT !.pc = "await_send", !.op = "send_or_edit", !.user = u,
                                  !.log = <<"send">>]]
    /\ UNCHANGED <<user_messages, visible, nextId, hist>>
    /\ UNCHANGED ledgerVars

\* transport: bot.edit_message_text; it can only succeed on a message that exists
edit_message_text(t) ==
    /\ task[t].pc = "await_edit"
    /\ \E ok \in BOOLEAN :
         /\ ok => task[t].mid \in visible[task[t].user]
         /\ task' = [task EXCEPT ![t].pc = "edit_returned", ![t].ok = ok]
         /\ hist' = IF ok THEN hist ELSE Spoil(task[t].user)
    /\ UNCHANGED <<user_messages, visible, nextId>>
    /\ UNCHANGED <<ledgerVars, dirVars>>

\* delete_previous_message up to its await (lines 68-73); Absent is where it
\* goes when the user has no entry
EnterDelete(t, Absent) ==
    LET u == task[t].user IN
    IF user_messages[u] # None
      THEN [task EXCEPT ![t].pc = "await_delete", ![t].mid = user_messages[u],
                        ![t].log = Append(@, "delete"), ![t].sawHandle = TRUE]
      ELSE [task EXCEPT ![t] = Absent]

\* a fallback that goes straight to the send and leaves the old message alone
edit_resume_NoDelete(t) ==
    /\ task[t].pc = "edit_returned"
    /\ LET u == task[t].user IN
       IF task[t].ok
         THEN /\ user_messages' = [user_messages EXCEPT ![u] = task[t].mid]
              /\ task' = [task EXCEPT ![t].pc = "done", ![t].result = "ok"]
              /\ hist' = [hist EXCEPT ![u].rendered = TRUE]
         ELSE /\ task' = [task EXCEPT ![t].pc = "await_send", ![t].log = Append(@, "send"),
                                      ![t].sawHandle = (user_messages[u] # None)]
              /\ UNCHANGED <<user_messages, hist>>
    /\ UNCHANGED <<visible, nextId>>
    /\ UNCHANGED <<ledgerVars, dirVars>>

\* send_or_edit_message resuming after the edit (lines 41-45 / 46-50)
edit_resume(t) ==
    /\ task[t].pc = "edit_returned"
    /\ LET u == task[t].user IN
       IF task[t].ok
         THEN /\ user_messages' = [user_messages EXCEPT ![u] = task[t].mid]
              /\ task' = [task EXCEPT ![t].pc = "done", ![t].result = "ok"]
              /\ hist' = [hist EXCEPT ![u].rendered = TRUE]
         ELSE /\ task' = EnterDelete(t, [task[t] EXCEPT !.pc = "await_send",
                                                       !.log = Append(@, "send")])
              /\ UNCHANGED <<user_messages, hist>>
    /\ UNCHANGED <<visible, nextId>>
    /\ UNCHANGED <<ledgerVars, dirVars>>

\* transport: bot.delete_message
delete_message(t) ==
    /\ task[t].pc = "await_delete"
    /\ \E ok \in BOOLEAN :
         /\ ok => task[t].mid \in visible[task[t].user]
         /\ task' = [task EXCEPT ![t].pc = "delete_returned", ![t].ok = ok]
         /\ visible' = IF ok THEN [visible EXCEPT ![task[t].user] = @ \ {task[t].mid}]
                             ELSE visible
         /\ hist' = IF ok THEN hist ELSE Spoil(task[t].user)
    /\ UNCHANGED <<user_messages, nextId>>
    /\ UNCHANGED <<ledgerVars, dirVars>>

\* a deletion that forgets the handle only when the transport deleted the message
delete_resume_NoFinally(t) ==
    /\ task[t].pc = "delete_returned"
    /\ user_messages' = IF task[t].ok THEN [user_messages EXCEPT ![task[t].user] = None]
                                     ELSE user_messages
    /\ IF task[t].op = "send_or_edit"
         THEN task' = [task EXCEPT ![t].pc = "await_send", ![t].log = Append(@, "send")]
         ELSE task' = [task EXCEPT ![t].pc = "done", ![t].result = "ok"]
    /\ UNCHANGED <<visible, nextId, hist>>
    /\ UNCHANGED <<ledgerVars, dirVars>>

\* delete_previous_message resuming: except/finally (lines 74-78), then back
\* in the caller, which goes on to send (line 53) or is finished
delete_resume(t) ==
    /\ task[t].pc = "delete_returned"
    /\ user_messages' = [user_messages EXCEPT ![task[t].user] = None]
    /\ IF task[t].op = "send_or_edit"
         THEN task' = [task EXCEPT ![t].pc = "await_send", ![t].log = Append(@, "send")]
         ELSE task' = [task EXCEPT ![t].pc = "done", ![t].result = "ok"]
    /\ UNCHANGED <<visible, nextId, hist>>
    /\ UNCHANGED <<ledgerVars, dirVars>>

\* transport: bot.send_message
send_message(t) ==
    /\ task[t].pc = "await_send"
    /\ \E ok \in BOOLEAN :
         /\ task' = [task EXCEPT ![t].pc = "send_returned", ![t].ok = ok,
                                 ![t].mid = IF ok THEN nextId ELSE None]
         /\ visible' = IF ok THEN [visible EXCEPT ![task[t].user] = @ \cup {nextId}]
                             ELSE visible
         /\ nextId' = IF ok THEN nextId + 1 ELSE nextId
         /\ hist' = IF ok THEN hist ELSE Spoil(task[t].user)
    /\ UNCHANGED user_messages
    /\ UNCHANGED <<ledgerVars, dirVars>>

\* a send whose message is returned without being tracked
send_resume_NoStore(t) ==
    /\ task[t].pc = "send_returned"
    /\ LET u == task[t].user IN
       IF task[t].ok
         THEN /\ task' = [task EXCEPT ![t].pc = "done", ![t].result = "ok"]
              /\ hist' = [hist EXCEPT ![u].rendered = TRUE]
              /\ UNCHANGED user_messages
         ELSE /\ task' = [task EXCEPT ![t].pc = "done", ![t].result = "raised"]
              /\ UNCHANGED <<user_messages, hist>>
    /\ UNCHANGED <<visible, nextId>>
    /\ UNCHANGED <<ledgerVars, dirVars>>

\* send_or_edit_message resuming after the send (lines 60-64); a failed send
\* is an exception nothing here catches
send_resume(t) ==
    /\ task[t].pc = "send_returned"
    /\ LET u == task[t].user IN
       IF task[t].ok
         THEN /\ user_messages' = [user_messages EXCEPT ![u] = task[t].mid]
              /\ task' = [task EXCEPT ![t].pc = "done", ![t].result = "ok"]
              /\ hist' = [hist EXCEPT ![u].rendered = TRUE]
         ELSE /\ task' = [task EXCEPT ![t].pc = "done", ![t].result = "raised"]
              /\ UNCHANGED <<user_messages, hist>>
    /\ UNCHANGED <<visible, nextId>>
    /\ UNCHANGED <<ledgerVars, dirVars>>

\* delete_previous_message called on its own (admin_manager.py lines 30, 90)
delete_previous_message(t, u) ==
    /\ task[t].pc = "idle"
    /\ LET called == [task EXCEPT ![t] =
                        [IdleTask EXCEPT !.op = "delete_previous", !.user = u]] IN
       task' = [called EXCEPT ![t] =
                  IF user_messages[u] # None
                    THEN [called[t] EXCEPT !.pc = "await_delete", !.mid = user_messages[u],
                                           !.log = <<"delete">>, !.sawHandle = TRUE]
                    ELSE [called[t] EXCEPT !.pc = "done", !.result = "ok"]]
    /\ hist' = Spoil(u)
    /\ UNCHANGED <<user_messages, visible, nextId>>
    /\ UNCHANGED ledgerVars

\* a clear that also removes the tracked message from the chat
clear_user_messages_Delete(u) ==
    /\ user_messages' = [user_messages EXCEPT ![u] = None]
    /\ visible' = [visible EXCEPT ![u] = @ \ {user_messages[u]}]
    /\ hist' = Spoil(u)
    /\ UNCHANGED <<nextId, task>>
    /\ UNCHANGED ledgerVars

\* clear_user_messages (lines 80-82): synchronous, no transport call
clear_user_messages(u) ==
    /\ user_messages' = [user_messages EXCEPT ![u] = None]
    /\ hist' = Spoil(u)
    /\ UNCHANGED <<visible, nextId, task>>
    /\ UNCHANGED ledgerVars

\* the awaiting handler takes the outcome; the coroutine is gone
task_return(t) ==
    /\ task[t].pc = "done"
    /\ task' = [task EXCEPT ![t] = IdleTask]
    /\ UNCHANGED <<user_messages, visible, nextId, hist>>
    /\ UNCHANGED ledgerVars

Steps ==
    \/ \E t \in Tasks : edit_message_text(t)
    \/ \E t \in Tasks : edit_resume(t)
    \/ \E t \in Tasks : delete_message(t)
    \/ \E t \in Tasks : delete_resume(t)
    \/ \E t \in Tasks : send_message(t)
    \/ \E t \in Tasks : send_resume(t)

\* events of one user handled concurrently: no per-user serialization
Next ==
    \/ \E t \in Tasks, u \in Users : send_or_edit_message(t, u) /\ UNCHANGED dirVars
    \/ \E t \in Tasks, u \in Users : delete_previous_message(t, u) /\ UNCHANGED dirVars
    \/ \E u \in Users : user_messages[u] # None /\ clear_user_messages(u) /\ UNCHANGED dirVars
    \/ \E t \in Tasks : task_return(t) /\ UNCHANGED dirVars
    \/ Steps

Spec == Init /\ [][Next]_vars

\* events of one user handled one after another
SeqNext ==
    \/ \E t \in Tasks, u \in Users :
           Quiescent(u) /\ send_or_edit_message(t, u) /\ UNCHANGED dirVars
    \/ \E t \in Tasks, u \in Users :
           Quiescent(u) /\ delete_previous_message(t, u) /\ UNCHANGED dirVars
    \/ \E u \in Users : Quiescent(u) /\ user_messages[u] # None /\ clear_user_messages(u)
                           /\ UNCHANGED dirVars
    \/ \E t \in Tasks : task_return(t) /\ UNCHANGED dirVars
    \/ Steps

SeqSpec == Init /\ [][SeqNext]_vars

\* observer of clear_user_messages: "yes" once it ran for the user, "used" once
\* the next render of the user has been called, "no" from the render after that
Cleared(u) == cleared' = [cleared EXCEPT ![u] = "yes"]
Rendering(u) == cleared' = [cleared EXCEPT ![u] = IF @ = "yes" THEN "used" ELSE "no"]
quiet == <<users, handler, content, rowVars>>

\* MessageManager called by one caller per user at a time, clear_user_messages
\* included for a user with or without a handle
ClearNext ==
    \/ \E t \in Tasks, u \in Users :
           Quiescent(u) /\ send_or_edit_message(t, u) /\ Rendering(u) /\ UNCHANGED quiet
    \/ \E t \in Tasks, u \in Users :
           Quiescent(u) /\ delete_previous_message(t, u) /\ UNCHANGED dirVars
    \/ \E u \in Users : Quiescent(u) /\ clear_user_messages(u) /\ Cleared(u) /\ UNCHANGED quiet
    \/ \E t \in Tasks : task_return(t) /\ UNCHANGED dirVars
    \/ Steps

ClearSpec == Init /\ [][ClearNext]_vars

\* ------------------------------------------- store (database.py, balances)
\* Database.get_balance: the amount of the bucket; a pair never written reads zero
get_balance(user_id, balance_type) == balances[user_id][balance_type]

Row(user_id, balance_type, amount, transaction_type, description) ==
    [user_id |-> user_id, balance_type |-> balance_type, amount |-> amount,
     transaction_type |-> transaction_type, description |-> description]

\* a store that changes the balance and writes no transaction row
update_balance_NoRow(user_id, balance_type, amount, transaction_type, description) ==
    /\ balances' = [balances EXCEPT ![user_id][balance_type] = @ + amount]
    /\ transactions' = transactions

\* Database.update_balance: on a connection of its own, adds the signed amount
\* to the bucket and appends the transaction row, both or neither
update_balance(user_id, balance_type, amount, transaction_type, description) ==
    /\ balances' = [balances EXCEPT ![user_id][balance_type] = @ + amount]
    /\ transactions' = Append(transactions,
           Row(user_id, balance_type, amount, transaction_type, description))

\* ---------------------------------------- BalanceManager (balance_manager.py)
Running(p) == proc[p].pc \notin {"idle", "done"}
RowsOwed ==
    Cardinality({p \in Procs : Running(p) /\ proc[p].op # "transfer"})
      + 2 * Cardinality({p \in Procs : Running(p) /\ proc[p].op = "transfer"})
Invoke(p, op, pc, user_id, to, balance_type, amount) ==
    [proc EXCEPT ![p] =
        [IdleProc EXCEPT !.pc = pc, !.op = op, !.user = user_id, !.to = to,
                         !.balance_type = balance_type, !.amount = amount]]
Finish(p, result) == [proc EXCEPT ![p].pc = "done", ![p].result = result]
Fail(p) == [proc EXCEPT ![p].pc = "done", ![p].result = "failure", ![p].failed = TRUE]

\* deposit_balance called (line 62)
deposit_balance(p, user_id, balance_type, amount) ==
    /\ proc[p].pc = "idle"
    /\ Len(transactions) + RowsOwed + 1 <= MaxRows
    /\ proc' = Invoke(p, "deposit", "deposit_update", user_id, None, balance_type, amount)
    /\ UNCHANGED <<balances, transactions, msgVars, dirVars>>

\* deposit_balance, lines 65-75
deposit_update(p) ==
    /\ proc[p].pc = "deposit_update"
    /\ \/ /\ update_balance(proc[p].user, proc[p].balance_type, proc[p].amount,
                            "deposit", <<"deposit", None>>)
          /\ proc' = Finish(p, "ok")
       \/ /\ proc' = Fail(p)
          /\ UNCHANGED <<balances, transactions>>
    /\ UNCHANGED <<msgVars, dirVars, pre>>

\* withdraw_balance called (line 77)
withdraw_balance(p, user_id, balance_type, amount) ==
    /\ proc[p].pc = "idle"
    /\ Len(transactions) + RowsOwed + 1 <= MaxRows
    /\ proc' = Invoke(p, "withdraw", "withdraw_get", user_id, None, balance_type, amount)
    /\ UNCHANGED <<balances, transactions, msgVars, dirVars>>

\* a withdrawal that reads the balance and debits whatever it read
withdraw_get_NoCheck(p) ==
    /\ proc[p].pc = "withdraw_get"
    /\ \/ proc' = [proc EXCEPT ![p].pc = "withdraw_update"]
       \/ proc' = Fail(p)
    /\ UNCHANGED <<balances, transactions, msgVars, dirVars, pre>>

\* withdraw_balance, lines 80-82: read the balance, then compare
withdraw_get(p) ==
    /\ proc[p].pc = "withdraw_get"
    /\ \/ LET current_balance == get_balance(proc[p].user, proc[p].balance_type) IN
          IF current_balance < proc[p].amount
            THEN proc' = Finish(p, "insufficient_funds")
            ELSE proc' = [proc EXCEPT ![p].pc = "withdraw_update"]
       \/ proc' = Fail(p)
    /\ UNCHANGED <<balances, transactions, msgVars, dirVars, pre>>

\* withdraw_balance, lines 84-94
withdraw_update(p) ==
    /\ proc[p].pc = "withdraw_update"
    /\ \/ /\ update_balance(proc[p].user, proc[p].balance_type, -proc[p].amount,
                            "withdraw", <<"withdraw", None>>)
          /\ proc' = Finish(p, "ok")
       \/ /\ proc' = Fail(p)
          /\ UNCHANGED <<balances, transactions>>
    /\ UNCHANGED <<msgVars, dirVars, pre>>

\* transfer_balance called (line 96)
transfer_balance(p, from_user_id, to_user_id, balance_type, amount) ==
    /\ proc[p].pc = "idle"
    /\ Len(transactions) + RowsOwed + 2 <= MaxRows
    /\ proc' = Invoke(p, "transfer", "transfer_get", from_user_id, to_user_id,
                      balance_type, amount)
    /\ UNCHANGED <<balances, transactions, msgVars, dirVars>>

\* a transfer that reads the sender's balance and goes on whatever it read
transfer_get_NoCheck(p) ==
    /\ proc[p].pc = "transfer_get"
    /\ \/ proc' = [proc EXCEPT ![p].pc = "transfer_begin"]
       \/ proc' = Fail(p)
    /\ UNCHANGED <<balances, transactions, msgVars, dirVars, pre>>

\* transfer_balance, lines 100-102: read the sender's balance, then compare
transfer_get(p) ==
    /\ proc[p].pc = "transfer_get"
    /\ \/ LET from_balance == get_balance(proc[p].user, proc[p].balance_type) IN
          IF from_balance < proc[p].amount
            THEN proc' = Finish(p, "insufficient_funds")
            ELSE proc' = [proc EXCEPT ![p].pc = "transfer_begin"]
       \/ proc' = Fail(p)
    /\ UNCHANGED <<balances, transactions, msgVars, dirVars, pre>>

\* transfer_balance, lines 105-106: a connection is acquired and a transaction
\* begun on it; no statement of the transfer is ever issued on that connection
transfer_begin(p) ==
    /\ proc[p].pc = "transfer_begin"
    /\ \/ proc' = [proc EXCEPT ![p].pc = "transfer_debit"]
       \/ proc' = Fail(p)
    /\ UNCHANGED <<balances, transactions, msgVars, dirVars, pre>>

\* transfer_balance, lines 108-114: the debit, through update_balance
transfer_debit(p) ==
    /\ proc[p].pc = "transfer_debit"
    /\ \/ /\ update_balance(proc[p].user, proc[p].balance_type, -proc[p].amount,
                            "transfer", <<"to", proc[p].to>>)
          /\ proc' = [proc EXCEPT ![p].pc = "transfer_credit"]
       \/ /\ proc' = Fail(p)
          /\ UNCHANGED <<balances, transactions>>
    /\ UNCHANGED <<msgVars, dirVars, pre>>

\* a transfer that credits the sender instead of the receiver
transfer_credit_ToSender(p) ==
    /\ proc[p].pc = "transfer_credit"
    /\ \/ /\ update_balance(proc[p].user, proc[p].balance_type, proc[p].amount,
                            "transfer", <<"from", proc[p].user>>)
          /\ proc' = [proc EXCEPT ![p].pc = "transfer_commit"]
       \/ /\ proc' = Fail(p)
          /\ UNCHANGED <<balances, transactions>>
    /\ UNCHANGED <<msgVars, dirVars, pre>>

\* transfer_balance, lines 117-123: the credit, through update_balance
transfer_credit(p) ==
    /\ proc[p].pc = "transfer_credit"
    /\ \/ /\ update_balance(proc[p].to, proc[p].balance_type, proc[p].amount,
                            "transfer", <<"from", proc[p].user>>)
          /\ proc' = [proc EXCEPT ![p].pc = "transfer_commit"]
       \/ /\ proc' = Fail(p)
          /\ UNCHANGED <<balances, transactions>>
    /\ UNCHANGED <<msgVars, dirVars, pre>>

\* transfer_balance, lines 106/125: leaving the transaction block commits the
\* (empty) transaction, then True is returned
transfer_commit(p) ==
    /\ proc[p].pc = "transfer_commit"
    /\ \/ proc' = Finish(p, "ok")
       \/ proc' = Fail(p)
    /\ UNCHANGED <<balances, transactions, msgVars, dirVars, pre>>

\* the caller takes the outcome
ledger_return(p) ==
    /\ proc[p].pc = "done"
    /\ proc' = [proc EXCEPT ![p] = IdleProc]
    /\ UNCHANGED <<balances, transactions, msgVars, dirVars>>

LedgerSteps ==
    \/ \E p \in Procs : deposit_update(p)
    \/ \E p \in Procs : withdraw_get(p)
    \/ \E p \in Procs : withdraw_update(p)
    \/ \E p \in Procs : transfer_get(p)
    \/ \E p \in Procs : transfer_begin(p)
    \/ \E p \in Procs : transfer_debit(p)
    \/ \E p \in Procs : transfer_credit(p)
    \/ \E p \in Procs : transfer_commit(p)

\* ledger operations running concurrently
LedgerNext ==
    \/ \E p \in Procs, u \in Users, b \in Buckets, a \in PosAmounts :
           deposit_balance(p, u, b, a) /\ UNCHANGED pre
    \/ \E p \in Procs, u \in Users, b \in Buckets, a \in PosAmounts :
           withdraw_balance(p, u, b, a) /\ UNCHANGED pre
    \/ \E p \in Procs, u \in Users, v \in Users, b \in Buckets, a \in PosAmounts :
           transfer_balance(p, u, v, b, a) /\ UNCHANGED pre
    \/ \E p \in Procs : ledger_return(p) /\ UNCHANGED pre
    \/ LedgerSteps

LedgerSpec == Init /\ [][LedgerNext]_vars

NoneRunning == \A p \in Procs : proc[p].pc = "idle"
SeqProcs == {1}
Snapshot == pre' = [balances |-> balances, transactions |-> transactions]

\* ledger operations one at a time
LedgerSeqNext ==
    \/ \E p \in SeqProcs, u \in Users, b \in Buckets, a \in PosAmounts :
           NoneRunning /\ deposit_balance(p, u, b, a) /\ Snapshot
    \/ \E p \in SeqProcs, u \in Users, b \in Buckets, a \in PosAmounts :
           NoneRunning /\ withdraw_balance(p, u, b, a) /\ Snapshot
    \/ \E p \in SeqProcs, u \in Users, v \in Users, b \in Buckets, a \in PosAmounts :
           NoneRunning /\ transfer_balance(p, u, v, b, a) /\ Snapshot
    \/ \E p \in Procs : ledger_return(p) /\ Snapshot
    \/ LedgerSteps

LedgerSeqSpec == Init /\ [][LedgerSeqNext]_vars

\* the amounts a caller can pass: nothing in BalanceManager restricts the sign
AnyAmounts == (0 - 1)..MaxAmount

\* ledger operations one at a time, invoked with any amount
LedgerAnyNext ==
    \/ \E p \in SeqProcs, u \in Users, b \in Buckets, a \in AnyAmounts :
           NoneRunning /\ deposit_balance(p, u, b, a) /\ Snapshot
    \/ \E p \in SeqProcs, u \in Users, b \in Buckets, a \in AnyAmounts :
           NoneRunning /\ withdraw_balance(p, u, b, a) /\ Snapshot
    \/ \E p \in SeqProcs, u \in Users, v \in Users, b \in Buckets, a \in AnyAmounts :
           NoneRunning /\ transfer_balance(p, u, v, b, a) /\ Snapshot
    \/ \E p \in Procs : ledger_return(p) /\ Snapshot
    \/ LedgerSteps

LedgerAnySpec == Init /\ [][LedgerAnyNext]_vars

\* ------------------------------------------------ user directory (database.py)
\* class UserState (lines 7-10): the values the enum parses
UserState == {"main", "admin", "awaiting_input"}

\* a read that hands the state column on as it is stored
get_user_state_Unparsed(user_id) ==
    IF users[user_id] = "absent" THEN "main" ELSE users[user_id]

\* Database.get_user_state (lines 117-127) when the store answers: the state
\* column parsed by UserState(result); MAIN when the user has no row (result is
\* None) and when the column holds a string the enum does not know (the
\* ValueError is caught by the except branch)
get_user_state(user_id) ==
    IF users[user_id] \in UserState THEN users[user_id] ELSE "main"

\* an upsert that writes the state column on conflict too
add_user_ResetState(user_id) == [users EXCEPT ![user_id] = "main"]

\* Database.add_user (lines 82-100) when the store answers: the upsert inserts
\* a row in state MAIN and leaves the state of an existing row alone
add_user(user_id) ==
    IF users[user_id] = "absent" THEN [users EXCEPT ![user_id] = "main"] ELSE users

\* ... and its name columns: first_name, last_name and username are written by
\* the INSERT and by DO UPDATE SET alike (lines 84-91)
add_user_names(user_id, name) == [names EXCEPT ![user_id] = name]

\* ... and what it returns: the RETURNING state of the row after the upsert,
\* parsed as get_user_state parses it (lines 96-103)
add_user_returns(user_id) ==
    IF add_user(user_id)[user_id] \in UserState THEN add_user(user_id)[user_id] ELSE "main"

\* Database.set_user_state (lines 129-136) when the store answers: an UPDATE
\* ... WHERE user_id, which touches no row when the user has none
set_user_state(user_id, state) ==
    IF users[user_id] = "absent" THEN users ELSE [users EXCEPT ![user_id] = state]

\* ------------------------------------------------ Command Dispatcher (main.py)
admin_ids == {1}        \* BotConfig.admin_ids: user 1 is an administrator, user 2 is not
is_admin(user) == user \in admin_ids

Gated == {"admin_all_users", "admin_stats", "admin_back_to_main",
          "admin_back_to_main_menu", "admin_panel"}
\* unknown_token: callback data no branch of handle_inline_buttons matches
Callbacks == {"about_project", "back_to_main", "unknown_token"} \cup Gated
Commands == {"start", "admin", "users", "stats"}
Events == Commands \cup Callbacks \cup {"text"}

\* a call a handler awaits; try: made inside the try block of show_all_users /
\* show_admin_stats
Call(call, arg, try) == [call |-> call, arg |-> arg, try |-> try]
Render(text) == Call("render", text, FALSE)
Answer(text) == Call("answer", text, FALSE)

\* a /start that puts the user back into MAIN
cmd_start_Reset(user) ==
    << Call("add_user", "main", FALSE), Call("set_user_state", "main", FALSE),
       Render("welcome") >>

\* cmd_start, lines 168-184
cmd_start(user) == << Call("add_user", "main", FALSE), Render("welcome") >>

\* an admin entry that lets everybody in
cmd_admin_NoCheck(user) ==
    << Call("set_user_state", "admin", FALSE), Render("admin_menu") >>

\* an admin entry that shows the admin menu first and writes the state after
cmd_admin_RenderFirst(user) ==
    IF ~is_admin(user)
      THEN << Render("denied") >>
      ELSE << Render("admin_menu"), Call("set_user_state", "admin", FALSE) >>

\* cmd_admin, lines 221-246
cmd_admin(user) ==
    IF ~is_admin(user)
      THEN << Render("denied") >>
      ELSE << Call("set_user_state", "admin", FALSE), Render("admin_menu") >>

\* AdminManager.show_all_users / show_admin_stats (admin_manager.py lines 27-85,
\* 87-133): the users table of the model is far below the 4000 characters at
\* which the list is split, so it is rendered in one message
show_all_users == << Call("delete_previous", "", TRUE), Call("render", "users", TRUE) >>
show_admin_stats == << Call("delete_previous", "", TRUE), Call("render", "stats", TRUE) >>

\* the parts of a user list of more than 4000 characters (line 55)
PartTexts == << "part1", "part2" >>

\* AdminManager.show_all_users when the list is longer than 4000 characters
\* (admin_manager.py lines 30, 54-70): every part goes through
\* send_or_edit_message, the last one with the keyboard
show_all_users_split ==
    << Call("delete_previous", "", TRUE) >>
        \o [i \in 1..Len(PartTexts) |-> Call("render", PartTexts[i], TRUE)]

\* cmd_users, lines 257-265, and cmd_stats, lines 276-284
cmd_users(user) == IF ~is_admin(user) THEN << Render("denied") >> ELSE show_all_users
cmd_stats(user) == IF ~is_admin(user) THEN << Render("denied") >> ELSE show_admin_stats

\* echo_message, lines 597-608
echo_message(user_state) ==
    IF user_state = "main" THEN << Render("echo") >> ELSE << Render("guidance") >>

\* callbacks that deny a non-administrator the way the commands do, by
\* rendering the denial as a screen
handle_inline_buttons_DenyByRender(data, user) ==
    CASE data = "about_project" -> << Render("about"), Answer("") >>
      [] data = "back_to_main" -> << Render("welcome"), Answer("") >>
      [] data \in Gated /\ ~is_admin(user) -> << Render("denied") >>
      [] data = "admin_all_users" /\ is_admin(user) -> show_all_users \o << Answer("") >>
      [] data = "admin_stats" /\ is_admin(user) -> show_admin_stats \o << Answer("") >>
      [] data = "admin_back_to_main" /\ is_admin(user) ->
             << Call("set_user_state", "main", FALSE), Render("welcome"), Answer("") >>
      [] data = "admin_back_to_main_menu" /\ is_admin(user) ->
             << Render("admin_menu"), Answer("") >>
      [] data = "admin_panel" /\ is_admin(user) ->
             << Call("set_user_state", "admin", FALSE), Render("admin_menu"), Answer("") >>
      [] OTHER -> << Answer("") >>

\* callbacks whose denial forgets to return and runs into the final answer
handle_inline_buttons_DenyNoReturn(data, user) ==
    CASE data = "about_project" -> << Render("about"), Answer("") >>
      [] data = "back_to_main" -> << Render("welcome"), Answer("") >>
      [] data \in Gated /\ ~is_admin(user) -> << Answer("denied"), Answer("") >>
      [] data = "admin_all_users" /\ is_admin(user) -> show_all_users \o << Answer("") >>
      [] data = "admin_stats" /\ is_admin(user) -> show_admin_stats \o << Answer("") >>
      [] data = "admin_back_to_main" /\ is_admin(user) ->
             << Call("set_user_state", "main", FALSE), Render("welcome"), Answer("") >>
      [] data = "admin_back_to_main_menu" /\ is_admin(user) ->
             << Render("admin_menu"), Answer("") >>
      [] data = "admin_panel" /\ is_admin(user) ->
             << Call("set_user_state", "admin", FALSE), Render("admin_menu"), Answer("") >>
      [] OTHER -> << Answer("") >>

\* handle_inline_buttons, lines 369-586; about_project stands for the callbacks
\* that read and render only (personal_cabinet, user_stats, back_to_cabinet)
handle_inline_buttons(data, user) ==
    CASE data = "about_project" -> << Render("about"), Answer("") >>
      [] data = "back_to_main" -> << Render("welcome"), Answer("") >>
      [] data \in Gated /\ ~is_admin(user) -> << Answer("denied") >>
      [] data = "admin_all_users" /\ is_admin(user) -> show_all_users \o << Answer("") >>
      [] data = "admin_stats" /\ is_admin(user) -> show_admin_stats \o << Answer("") >>
      [] data = "admin_back_to_main" /\ is_admin(user) ->
             << Call("set_user_state", "main", FALSE), Render("welcome"), Answer("") >>
      [] data = "admin_back_to_main_menu" /\ is_admin(user) ->
             << Render("admin_menu"), Answer("") >>
      [] data = "admin_panel" /\ is_admin(user) ->
             << Call("set_user_state", "admin", FALSE), Render("admin_menu"), Answer("") >>
      [] OTHER -> << Answer("") >>

\* the handler the dispatcher routes the event to (decorators, lines 159-589)
Route(ev, user, user_state) ==
    CASE ev = "start" -> cmd_start(user)
      [] ev = "admin" -> cmd_admin(user)
      [] ev = "users" -> cmd_users(user)
      [] ev = "stats" -> cmd_stats(user)
      [] ev = "text" -> echo_message(user_state)
      [] OTHER -> handle_inline_buttons(ev, user)

Current(h) == Head(handler[h].todo)
\* what content keeps of a rendered text: the admin-panel menu, a part of a
\* split user list, or another screen
Screen(text) ==
    IF text = "admin_menu" \/ (\E i \in 1..Len(PartTexts) : text = PartTexts[i])
      THEN text ELSE "other"
At(h, call) ==
    /\ handler[h].pc = "run" /\ handler[h].todo # <<>>
    /\ Current(h).call = call /\ task[h].pc = "idle"
\* the awaited call returned: on to the next one, or the handler is finished
Returns(h) ==
    [handler[h] EXCEPT !.todo = Tail(@),
                       !.pc = IF Tail(handler[h].todo) = <<>> THEN "done" ELSE "run"]
Issued(h) == [handler[h] EXCEPT !.log = Append(@, Current(h))]
NotTried(c) == ~c.try
\* the awaited call raised: inside the try block the except branch renders an
\* error text and the handler goes on after the block; anywhere else nothing
\* catches it and it leaves the handler
Raises(h) ==
    IF Current(h).try
      THEN [handler[h] EXCEPT !.pc = "run",
               !.todo = << Render("error") >> \o SelectSeq(Tail(@), NotTried)]
      ELSE [handler[h] EXCEPT !.pc = "done", !.todo = <<>>, !.raised = TRUE]

\* message.from_user of the updates of a user (lines 169-172): the profile
\* names the user has while the dispatcher handles their events
from_user(u) == "name_a"

\* polling hands an update to the dispatcher (line 613)
feed_update(h, u, ev) ==
    /\ handler[h].pc = "idle" /\ task[h].pc = "idle"
    /\ handler' = [handler EXCEPT ![h] =
          [IdleHandler EXCEPT !.pc = "middleware", !.ev = ev, !.user = u]]
    /\ UNCHANGED <<users, content, cleared, rowVars, msgVars, ledgerVars>>

\* UserStateMiddleware.__call__ (middleware.py lines 17-27): the state is read
\* (MAIN when the read fails, database.py lines 125-127) and the handler is
\* entered, up to its first call in the model; the deletion of the user's own
\* command message (e.g. lines 162-165) touches nothing of the model
UserStateMiddleware(h) ==
    /\ handler[h].pc = "middleware"
    /\ \E ok \in BOOLEAN :
         LET user_state == IF ok THEN get_user_state(handler[h].user) ELSE "main" IN
         handler' = [handler EXCEPT ![h].pc = "run", ![h].user_state = user_state,
                        ![h].todo = Route(handler[h].ev, handler[h].user, user_state)]
    /\ UNCHANGED <<users, content, cleared, rowVars, msgVars, ledgerVars>>

\* await database.add_user(...); a store error is logged, not raised (lines 101-103)
db_add_user(h) ==
    /\ At(h, "add_user")
    /\ \E ok \in BOOLEAN :
         /\ users' = IF ok THEN add_user(handler[h].user) ELSE users
         /\ names' = IF ok THEN add_user_names(handler[h].user, from_user(handler[h].user))
                          ELSE names
    /\ handler' = [handler EXCEPT ![h] = [Returns(h) EXCEPT !.log = Issued(h).log]]
    /\ UNCHANGED <<content, cleared, returned, msgVars, ledgerVars>>

\* await database.set_user_state(...); a store error is logged, not raised
\* (lines 137-138)
db_set_user_state(h) ==
    /\ At(h, "set_user_state")
    /\ \E ok \in BOOLEAN :
         /\ users' = IF ok THEN set_user_state(handler[h].user, Current(h).arg) ELSE users
         /\ handler' = [handler EXCEPT ![h] =
               [Returns(h) EXCEPT !.log = Issued(h).log,
                                  !.wrote = ok /\ users[handler[h].user] # "absent"]]
    /\ UNCHANGED <<content, cleared, rowVars, msgVars, ledgerVars>>

\* await callback_query.answer(...): a transport call, which can raise
answer(h) ==
    /\ At(h, "answer")
    /\ \E ok \in BOOLEAN :
         handler' = [handler EXCEPT ![h] =
            [(IF ok THEN Returns(h) ELSE Raises(h)) EXCEPT !.log = Issued(h).log]]
    /\ UNCHANGED <<users, content, cleared, rowVars, msgVars, ledgerVars>>

\* await message_manager.send_or_edit_message(...): the call
render(h) ==
    /\ At(h, "render")
    /\ send_or_edit_message(h, handler[h].user)
    /\ handler' = [handler EXCEPT ![h] = [Issued(h) EXCEPT !.pc = "rendering"]]
    /\ UNCHANGED <<users, content, cleared, rowVars>>

\* ... and its return or its exception; content records what the message shows
render_return(h) ==
    /\ handler[h].pc = "rendering"
    /\ task_return(h)
    /\ IF task[h].result = "ok"
         THEN /\ handler' = [handler EXCEPT ![h] = Returns(h)]
              /\ content' = [content EXCEPT ![task[h].mid] = Screen(Current(h).arg)]
         ELSE /\ handler' = [handler EXCEPT ![h] = Raises(h)]
              /\ UNCHANGED content
    /\ UNCHANGED <<users, cleared, rowVars>>

\* await message_manager.delete_previous_message(...) (admin_manager.py lines
\* 30, 90): the call
delete_previous(h) ==
    /\ At(h, "delete_previous")
    /\ delete_previous_message(h, handler[h].user)
    /\ handler' = [handler EXCEPT ![h] = [Issued(h) EXCEPT !.pc = "deleting"]]
    /\ UNCHANGED <<users, content, cleared, rowVars>>

\* ... and its return; it raises nothing (main.py lines 74-78)
delete_previous_return(h) ==
    /\ handler[h].pc = "deleting"
    /\ task_return(h)
    /\ handler' = [handler EXCEPT ![h] = Returns(h)]
    /\ UNCHANGED <<users, content, cleared, rowVars>>

\* the handler is over, by return or by an exception the dispatcher logs;
\* polling goes on with the next update
handler_return(h) ==
    /\ handler[h].pc = "done"
    /\ handler' = [handler EXCEPT ![h] = IdleHandler]
    /\ UNCHANGED <<users, content, cleared, rowVars, msgVars, ledgerVars>>

NoneHandling == \A h \in Tasks : handler[h].pc = "idle"
SeqHandlers == {1}

HandlerSteps ==
    \/ \E h \in Tasks : UserStateMiddleware(h)
    \/ \E h \in Tasks : db_add_user(h)
    \/ \E h \in Tasks : db_set_user_state(h)
    \/ \E h \in Tasks : answer(h)
    \/ \E h \in Tasks : render(h)
    \/ \E h \in Tasks : render_return(h)
    \/ \E h \in Tasks : delete_previous(h)
    \/ \E h \in Tasks : delete_previous_return(h)
    \/ \E h \in Tasks : handler_return(h)

\* a callback comes from a button under a bot message in the user's chat
Deliverable(u, ev) == ev \in Callbacks => visible[u] # {}

\* the events handled one after another
DispatchNext ==
    \/ \E h \in SeqHandlers, u \in Users, ev \in Events :
           NoneHandling /\ Deliverable(u, ev) /\ feed_update(h, u, ev)
    \/ HandlerSteps
    \/ Steps

DispatchSpec == Init /\ [][DispatchNext]_vars

\* ------------------------------------------- the user list of a large table
\* the middleware and the entry of the handler, as in UserStateMiddleware, for
\* an administrator's request of the user list at a time when the users
\* table yields a list of more than 4000 characters
UserStateMiddleware_split(h) ==
    /\ handler[h].pc = "middleware"
    /\ handler[h].ev \in {"users", "admin_all_users"} /\ is_admin(handler[h].user)
    /\ \E ok \in BOOLEAN :
         LET user_state == IF ok THEN get_user_state(handler[h].user) ELSE "main" IN
         handler' = [handler EXCEPT ![h].pc = "run", ![h].user_state = user_state,
                        ![h].todo = IF handler[h].ev = "users"
                                      THEN show_all_users_split
                                      ELSE show_all_users_split \o << Answer("") >>]
    /\ UNCHANGED <<users, content, cleared, rowVars, msgVars, ledgerVars>>

ListEvents == {"start", "admin", "users", "admin_all_users"}

\* the events handled one after another; the user list is short or long
ListNext ==
    \/ \E h \in SeqHandlers, u \in Users, ev \in ListEvents :
           NoneHandling /\ Deliverable(u, ev) /\ feed_update(h, u, ev)
    \/ \E h \in Tasks : UserStateMiddleware_split(h)
    \/ HandlerSteps
    \/ Steps

ListSpec == Init /\ [][ListNext]_vars

\* ------------------------------------------ the Database methods on their own
Names == {"name_a", "name_b"}
Written == {"main", "admin"}    \* the states the handlers pass to set_user_state
Result(call, user, arg, ok, value) ==
    [call |-> call, user |-> user, arg |-> arg, ok |-> ok, value |-> value]

\* await database.add_user(user_id, first_name, ...): one INSERT ... ON CONFLICT
\* statement; a store error is logged and MAIN is returned (lines 101-103)
call_add_user(user_id, name) ==
    /\ \E ok \in BOOLEAN :
         IF ok
           THEN /\ users' = add_user(user_id)
                /\ names' = add_user_names(user_id, name)
                /\ returned' = Result("add_user", user_id, name, TRUE,
                                        add_user_returns(user_id))
           ELSE /\ UNCHANGED <<users, names>>
                /\ returned' = Result("add_user", user_id, name, FALSE, "main")
    /\ UNCHANGED <<handler, content, cleared, msgVars, ledgerVars>>

\* await database.get_user_state(user_id): one SELECT; a store error is logged
\* and MAIN is returned (lines 125-127)
call_get_user_state(user_id) ==
    /\ \E ok \in BOOLEAN :
         returned' = Result("get_user_state", user_id, "", ok,
                              IF ok THEN get_user_state(user_id) ELSE "main")
    /\ UNCHANGED <<users, names, handler, content, cleared, msgVars, ledgerVars>>

\* await database.set_user_state(user_id, state): one UPDATE; a store error is
\* logged (lines 137-138); nothing is returned
call_set_user_state(user_id, state) ==
    /\ \E ok \in BOOLEAN :
         /\ users' = IF ok THEN set_user_state(user_id, state) ELSE users
         /\ returned' = Result("set_user_state", user_id, state, ok, "none")
    /\ UNCHANGED <<names, handler, content, cleared, msgVars, ledgerVars>>

StoreNext ==
    \/ \E u \in Users, n \in Names : call_add_user(u, n)
    \/ \E u \in Users : call_get_user_state(u)
    \/ \E u \in Users, st \in Written : call_set_user_state(u, st)

StoreSpec == Init /\ [][StoreNext]_vars

\* the users table is a table of a PostgreSQL database: something other than
\* this program (an earlier release, a migration, an operator) leaves in a row
\* a state string the enum of this release does not know
foreign_update(user_id) ==
    /\ users[user_id] # "absent"
    /\ users' = [users EXCEPT ![user_id] = "legacy"]
    /\ UNCHANGED <<handler, content, cleared, rowVars, msgVars, ledgerVars>>

\* the dispatcher, events handled one after another, on such a table
LegacyNext ==
    \/ DispatchNext
    \/ \E u \in Users : NoneHandling /\ foreign_update(u)

LegacySpec == Init /\ [][LegacyNext]_vars

\* ------------------------------------------------------- process restart
\* a restart that finds the handles of the process before it
restart_KeepHandles ==
    /\ task' = [t \in Tasks |-> IdleTask]
    /\ handler' = [h \in Tasks |-> IdleHandler]
    /\ proc' = [p \in Procs |-> IdleProc]
    /\ hist' = [u \in Users |-> [hist[u] EXCEPT !.clean = FALSE]]
    /\ UNCHANGED <<user_messages, visible, nextId, balances, transactions, pre,
                   users, content, rowVars>>

\* the process ends and main() runs again: every coroutine is gone,
\* MessageManager.__init__ (lines 16-18) starts with an empty user_messages
\* dict; the chats of the transport and the tables of the store are as they were
restart ==
    /\ user_messages' = [u \in Users |-> None]
    /\ task' = [t \in Tasks |-> IdleTask]
    /\ handler' = [h \in Tasks |-> IdleHandler]
    /\ proc' = [p \in Procs |-> IdleProc]
    /\ hist' = [u \in Users |-> [hist[u] EXCEPT !.clean = FALSE]]
    /\ UNCHANGED <<visible, nextId, balances, transactions, pre,
                   users, content, rowVars>>

\* the users table an earlier run of the dispatcher has left: empty, or with a
\* row per user, the administrator's in ADMIN
Persisted ==
    { [u \in Users |-> "absent"],
      [u \in Users |-> IF is_admin(u) THEN "admin" ELSE "main"] }

RestartInit ==
    /\ user_messages = [u \in Users |-> None]
    /\ visible = [u \in Users |-> {}]
    /\ nextId = 1
    /\ task = [t \in Tasks |-> IdleTask]
    /\ hist = [u \in Users |-> [clean |-> TRUE, rendered |-> FALSE]]
    /\ balances = [u \in Users |-> [b \in Buckets |-> 0]]
    /\ transactions = <<>>
    /\ proc = [p \in Procs |-> IdleProc]
    /\ pre = [balances |-> balances, transactions |-> transactions]
    /\ users \in Persisted
    /\ names = [u \in Users |-> IF users[u] = "absent" THEN "none" ELSE from_user(u)]
    /\ handler = [h \in Tasks |-> IdleHandler]
    /\ content = [m \in MsgIds |-> "none"]
    /\ cleared = [u \in Users |-> "no"]
    /\ returned = NoCall

\* observer: every user's handle has been dropped by the restart
Restarted == cleared' = [u \in Users |-> "yes"]

\* MessageManager with coroutines interleaved at every await, and restarts
RestartNext ==
    \/ \E t \in Tasks, u \in Users :
           send_or_edit_message(t, u) /\ Rendering(u) /\ UNCHANGED quiet
    \/ \E t \in Tasks, u \in Users : delete_previous_message(t, u) /\ UNCHANGED dirVars
    \/ \E t \in Tasks : task_return(t) /\ UNCHANGED dirVars
    \/ restart /\ Restarted
    \/ Steps

RestartSpec == RestartInit /\ [][RestartNext]_vars

\* ------------------------------------------------------------------ claims
HasSend(log) == \E i \in 1..Len(log) : log[i] = "send"
Fallback(t) == task[t].op = "send_or_edit" /\ Len(task[t].log) > 0 /\ task[t].log[1] = "edit"
SendFailed(t) ==
    /\ task[t].op = "send_or_edit" /\ task[t].pc = "done"
    /\ HasSend(task[t].log) /\ ~task[t].ok

\* C1, ordering: a render whose edit failed while the user still had a handle
\* has issued exactly edit, delete, send, in that order, once it sends
C1_DeleteBeforeSend ==
    \A t \in Tasks :
        (Fallback(t) /\ task[t].sawHandle /\ HasSend(task[t].log))
            => task[t].log = <<"edit", "delete", "send">>

\* C1, handle: when the fallback's send succeeds, the step that resumes the
\* render stores the identifier of the message just sent
C1_HandleIsNewMessage ==
    \A t \in Tasks :
        (Fallback(t) /\ task[t].pc = "send_returned" /\ task[t].ok /\ task'[t].pc = "done")
            => /\ user_messages'[task[t].user] = task[t].mid
               /\ task[t].mid \in MsgIds

\* C1: in the edit-failure fallback the deletion of the old message is
\* attempted strictly before the new message is sent, and after a successful
\* send the tracked handle is the identifier of the new message
C1_EditFailureFallback == [](C1_DeleteBeforeSend) /\ [][C1_HandleIsNewMessage]_vars

C1_Witness ==
    \E t \in Tasks :
        /\ task[t].pc = "done" /\ task[t].result = "ok"
        /\ task[t].log = <<"edit", "delete", "send">>
        /\ user_messages[task[t].user] = task[t].mid

\* C2: with the renders of a user handled one after another and every send
\* and edit succeeding, the user never has two visible bot messages, and
\* between renders has exactly one, the one the tracked handle refers to
C2_SingleMessageSequential ==
    \A u \in Users :
        hist[u].clean =>
            /\ Cardinality(visible[u]) <= 1
            /\ (Quiescent(u) /\ hist[u].rendered) =>
                   (user_messages[u] # None /\ visible[u] = {user_messages[u]})

C2_Witness ==
    \E t \in Tasks :
        /\ task[t].pc = "done" /\ task[t].result = "ok" /\ task[t].log = <<"edit">>
        /\ hist[task[t].user].clean /\ Quiescent(task[t].user)
        /\ visible[task[t].user] = {user_messages[task[t].user]}

\* C3: with two events of one user handled concurrently (and no transport
\* failure), at a quiescent point at most one bot message is visible to the
\* user and the tracked handle refers to it
C3_SingleMessageConcurrent ==
    \A u \in Users :
        (hist[u].clean /\ Quiescent(u)) =>
            /\ Cardinality(visible[u]) <= 1
            /\ visible[u] # {} => user_messages[u] \in visible[u]

\* C4: a render whose send failed has returned a "delivery failed" result
\* to its caller, not raised, and the user has no handle
C4_SendFailureIsReturned ==
    \A t \in Tasks :
        SendFailed(t) =>
            /\ task[t].result = "delivery_failed"
            /\ user_messages[task[t].user] = None

Returned(p, op) == proc[p].pc = "done" /\ proc[p].op = op
StoreUntouched == balances = pre.balances /\ transactions = pre.transactions

\* C5: a transfer of amount from A to B that returned success, with nothing
\* else running, has subtracted amount from A's bucket and added amount to
\* B's (the two compose when A = B), has left every other balance alone, and
\* has appended exactly two rows: the debit on A, then the credit on B
C5_TransferSuccess ==
    \A p \in Procs :
        (Returned(p, "transfer") /\ proc[p].result = "ok") =>
            LET A == proc[p].user
                B == proc[p].to
                k == proc[p].balance_type
                amount == proc[p].amount
                Delta(x, b) == (IF x = B /\ b = k THEN amount ELSE 0)
                                 - (IF x = A /\ b = k THEN amount ELSE 0)
            IN  /\ pre.balances[A][k] >= amount
                /\ \A x \in Users, b \in Buckets :
                       balances[x][b] = pre.balances[x][b] + Delta(x, b)
                /\ transactions = pre.transactions \o
                       << Row(A, k, -amount, "transfer", <<"to", B>>),
                          Row(B, k, amount, "transfer", <<"from", A>>) >>

C5_Witness ==
    \E p \in Procs :
        /\ Returned(p, "transfer") /\ proc[p].result = "ok"
        /\ proc[p].user # proc[p].to /\ proc[p].amount > 0
        /\ pre.balances[proc[p].user][proc[p].balance_type] > proc[p].amount
        /\ balances[proc[p].to][proc[p].balance_type] = proc[p].amount

\* C6: a transfer (of a positive amount, between two users) that did not
\* return success, with nothing else running, has left every balance and the
\* transaction history as it found them
C6_TransferAllOrNothing ==
    \A p \in Procs :
        (/\ Returned(p, "transfer") /\ proc[p].result # "ok"
         /\ proc[p].amount > 0 /\ proc[p].user # proc[p].to) => StoreUntouched

\* C7: no balance is ever below zero, whatever the interleaving of
\* withdrawals and transfers invoked with positive amounts
C7_NonNegative ==
    \A u \in Users, b \in Buckets : balances[u][b] >= 0

\* C8: a transfer invoked, with nothing else running, for more than the
\* sender's balance does not succeed and changes no balance and no row; with
\* the store answering the balance read it reports insufficient funds
C8_TransferInsufficient ==
    \A p \in Procs :
        (/\ Returned(p, "transfer")
         /\ proc[p].amount > pre.balances[proc[p].user][proc[p].balance_type])
            => /\ proc[p].result # "ok"
               /\ ~proc[p].failed => proc[p].result = "insufficient_funds"
               /\ StoreUntouched

C8_Witness ==
    \E p \in Procs :
        /\ Returned(p, "transfer") /\ proc[p].result = "insufficient_funds"
        /\ pre.balances[proc[p].user][proc[p].balance_type] > 0
        /\ proc[p].amount > pre.balances[proc[p].user][proc[p].balance_type]
        /\ StoreUntouched

\* C9: a withdrawal invoked, with nothing else running, for more than the
\* balance does not succeed, leaves the balance as it was and appends no row;
\* with the store answering the balance read it reports insufficient funds
C9_WithdrawInsufficient ==
    \A p \in Procs :
        (/\ Returned(p, "withdraw")
         /\ proc[p].amount > pre.balances[proc[p].user][proc[p].balance_type])
            => /\ proc[p].result # "ok"
               /\ ~proc[p].failed => proc[p].result = "insufficient_funds"
               /\ balances = pre.balances
               /\ Len(transactions) = Len(pre.transactions)
               /\ transactions = pre.transactions

C9_Witness ==
    \E p \in Procs :
        /\ Returned(p, "withdraw") /\ proc[p].result = "insufficient_funds"
        /\ pre.balances[proc[p].user][proc[p].balance_type] > 0
        /\ proc[p].amount > pre.balances[proc[p].user][proc[p].balance_type]
        /\ balances = pre.balances /\ transactions = pre.transactions

RECURSIVE SumRows(_, _, _)
SumRows(rows, u, b) ==
    IF rows = <<>> THEN 0
    ELSE (IF Head(rows).user_id = u /\ Head(rows).balance_type = b
            THEN Head(rows).amount ELSE 0) + SumRows(Tail(rows), u, b)

\* C10, agreement: every balance is the sum of the signed amounts of the
\* rows of its user and bucket
C10_BalanceIsSumOfRows ==
    \A u \in Users, b \in Buckets : balances[u][b] = SumRows(transactions, u, b)

\* C10, together: a step that changes a balance or the history appends
\* exactly one row and adds that row's amount to that row's balance
C10_RowPerMutation ==
    (balances' # balances \/ transactions' # transactions) =>
        /\ Len(transactions') = Len(transactions) + 1
        /\ LET row == transactions'[Len(transactions')] IN
           /\ transactions' = Append(transactions, row)
           /\ balances' = [balances EXCEPT ![row.user_id][row.balance_type] = @ + row.amount]

C11_AmountPrecondition ==
    \A p \in Procs :
        (/\ Returned(p, "withdraw") \/ Returned(p, "transfer")
         /\ proc[p].amount <= 0) => StoreUntouched

Called(h, call) == \E i \in 1..Len(handler[h].log) : handler[h].log[i].call = call
AdminEntry(h) == handler[h].ev \in {"admin", "admin_panel"} /\ is_admin(handler[h].user)

\* C12: once the handler of an admin-entry action (/admin or admin_panel) of
\* a user in admin_ids has made its state write, whether or not it has
\* rendered the admin screen yet, reading the user's state from the store
\* returns ADMIN
C12_AdminEntryPersisted ==
    \A h \in Tasks :
        (AdminEntry(h) /\ Called(h, "set_user_state"))
            => get_user_state(handler[h].user) = "admin"

StateChanging(h) ==
    /\ handler[h].ev \in {"admin", "admin_panel", "admin_back_to_main"}
    /\ is_admin(handler[h].user)
Target(h) == IF handler[h].ev = "admin_back_to_main" THEN "main" ELSE "admin"

\* C13: a handler that changes the conversation state (cmd_admin, admin_panel,
\* admin_back_to_main) has had its state write return before it issues the
\* render of the resulting screen: the write is the first call it makes, and
\* when the write updated the user's row the store holds the new state from
\* the moment the render is issued
C13_PersistBeforeRender ==
    \A h \in Tasks :
        (StateChanging(h) /\ Called(h, "render"))
            => /\ handler[h].log[1] = Call("set_user_state", Target(h), FALSE)
               /\ handler[h].wrote => users[handler[h].user] = Target(h)

C13_Witness ==
    \E h \in Tasks :
        /\ handler[h].ev = "admin" /\ is_admin(handler[h].user)
        /\ handler[h].pc = "rendering" /\ task[h].pc = "await_send"
        /\ handler[h].wrote /\ users[handler[h].user] = "admin"

Live(u) == user_messages[u] # None /\ user_messages[u] \in visible[u]
ShowsAdminMenu(u) == Live(u) /\ content[user_messages[u]] = "admin_menu"

\* C14: whenever no event is being handled, a user whose live message shows
\* the admin-panel menu has the persisted conversation state ADMIN
C14_ScreenAuthority ==
    NoneHandling =>
        \A u \in Users : ShowsAdminMenu(u) => get_user_state(u) = "admin"

DeniedCallback(hd) == hd.ev \in Gated /\ ~is_admin(hd.user)

\* C15, notice: the handler of an admin-gated callback of a user outside
\* admin_ids makes one call, the answer carrying the denial notice
C15_DenialAnswered ==
    \A h \in Tasks :
        DeniedCallback(handler[h]) =>
            /\ \A i \in 1..Len(handler[h].log) : handler[h].log[i] = Answer("denied")
            /\ handler[h].pc = "done" => handler[h].log = << Answer("denied") >>
            /\ task[h].pc = "idle"

\* C15, frame: no step taken while such a callback is handled changes the
\* persisted states, a balance or transaction row, the handle map, or
\* anything at the transport (no send, edit or delete)
C15_DenialFrame ==
    \A h \in Tasks :
        (DeniedCallback(handler[h]) \/ DeniedCallback(handler'[h]))
            => UNCHANGED <<users, balances, transactions, user_messages, visible, nextId, task>>

\* C15: a user outside admin_ids who invokes an admin-gated callback is
\* answered a denial notice; the persisted state, all balances and the
\* handle map are unchanged and no transport send, edit or delete is issued
C15_DeniedCallback == [](C15_DenialAnswered) /\ [][C15_DenialFrame]_vars

C15_Witness ==
    \E h \in Tasks :
        /\ DeniedCallback(handler[h]) /\ handler[h].pc = "done" /\ ~handler[h].raised
        /\ handler[h].log = << Answer("denied") >>
        /\ Live(handler[h].user)

Privileged(c) ==
    \/ c.call \in {"set_user_state", "delete_previous"}
    \/ c.call = "render" /\ c.arg \in {"admin_menu", "users", "stats"}
\* the calls made and to be made; the head of todo stays until its call returns
Calls(h) ==
    handler[h].log \o (IF handler[h].pc \in {"rendering", "deleting"}
                         THEN Tail(handler[h].todo) ELSE handler[h].todo)

\* C16: a user whose persisted state is ADMIN is in admin_ids, and a handler
\* working for a user outside admin_ids neither has made nor is going to make
\* a state write, a call of show_all_users / show_admin_stats or a render of
\* an admin screen
C16_AuthorizationSafety ==
    /\ \A u \in Users : users[u] = "admin" => is_admin(u)
    /\ \A h \in Tasks :
           (handler[h].user # None /\ ~is_admin(handler[h].user))
               => \A i \in 1..Len(Calls(h)) : ~Privileged(Calls(h)[i])

C16_Witness ==
    /\ \E u \in Users : users[u] = "admin"
    /\ \E h \in Tasks :
           /\ handler[h].ev = "admin" /\ ~is_admin(handler[h].user)
           /\ handler[h].pc = "done" /\ handler[h].log = << Render("denied") >>
           /\ users[handler[h].user] = "main"

FreeText(hd) == hd.ev = "text" /\ hd.pc \notin {"idle", "middleware"}

\* C17, answer: the handler of a free-text message answers with the echo when
\* the user's persisted state is MAIN and with the guidance text, never the
\* echo, when it is anything else
C17_EchoOnlyInMain ==
    \A h \in Tasks :
        FreeText(handler[h]) =>
            Calls(h) = IF get_user_state(handler[h].user) = "main"
                         THEN << Render("echo") >> ELSE << Render("guidance") >>

\* C17, state: no step of the handling of a free-text message changes a
\* persisted conversation state
C17_StateUnchanged ==
    \A h \in Tasks : (handler[h].ev = "text" \/ handler'[h].ev = "text") => users' = users

\* C17: free text is echoed in state MAIN, answered with the fixed guidance
\* message and never echoed in any other state, and never changes the
\* persisted conversation state
C17_FreeTextPolicy == [](C17_EchoOnlyInMain) /\ [][C17_StateUnchanged]_vars

\* C18, effect: a step of clear_user_messages(u) leaves u without a handle,
\* issues no transport call (the chats, the identifiers handed out and every
\* coroutine are as before), leaves the handles of the other users alone and
\* changes no handle at all when u had none
C18_ClearEffect ==
    \A u \in Users :
        clear_user_messages(u) =>
            /\ user_messages'[u] = None
            /\ \A v \in Users \ {u} : user_messages'[v] = user_messages[v]
            /\ visible' = visible /\ nextId' = nextId /\ task' = task
            /\ user_messages[u] = None => user_messages' = user_messages

\* C18, next render: the send_or_edit_message called next for a user after
\* clear_user_messages goes to send a new message, not to edit
C18_NextRenderSends ==
    \A t \in Tasks, u \in Users :
        (/\ cleared[u] = "yes" /\ task[t].pc = "idle"
         /\ task'[t].op = "send_or_edit" /\ task'[t].user = u)
            => (task'[t].pc = "await_send" /\ task'[t].log = << "send" >>)

\* C18: clear_user_messages(user_id) drops the user's handle without any
\* transport call, leaves other users' handles unchanged, is a no-op without
\* a handle, and makes the user's next render a send
C18_ClearDropsHandle == [][C18_ClearEffect /\ C18_NextRenderSends]_vars

C18_Witness ==
    \E t \in Tasks :
        /\ task[t].op = "send_or_edit" /\ task[t].pc = "done" /\ task[t].result = "ok"
        /\ task[t].log = << "send" >> /\ cleared[task[t].user] = "used"
        /\ user_messages[task[t].user] = task[t].mid
        /\ Cardinality(visible[task[t].user]) = 2
        /\ \E v \in Users \ {task[t].user} : Live(v)

AdminExit(h) ==
    /\ handler[h].ev = "admin_back_to_main" /\ is_admin(handler[h].user)
    /\ handler[h].user_state = "admin"

\* C19: when an admin in state ADMIN leaves the admin panel for the root menu
\* (admin_back_to_main), the root menu is rendered with the user's handle
\* cleared: it is sent as a new message, not edited into the admin screen
C19_RootMenuIsNewMessage ==
    \A h \in Tasks :
        (AdminExit(h) /\ handler[h].pc = "rendering" /\ Current(h) = Render("welcome"))
            => task[h].log[1] = "send"

\* C20: a handler that an exception has left (a transport call raised in it)
\* has had the failure caught at its boundary and has rendered the generic
\* apology to the user
C20_FailureContained ==
    \A h \in Tasks :
        handler[h].raised =>
            \E i \in 1..Len(handler[h].log) : handler[h].log[i] = Render("error")


\* the state read of the middleware failed: the handler was handed a state
\* that is not the persisted one (a free-text handler writes no state)
ReadFailed(h) ==
    /\ FreeText(handler[h])
    /\ handler[h].user_state # get_user_state(handler[h].user)
\* the state write of the handler failed: the UPDATE was awaited for a user
\* with a row and did not take place
WriteFailed(h) ==
    /\ Called(h, "set_user_state") /\ ~handler[h].wrote
    /\ users[handler[h].user] # "absent"
Rendered(h, text) == \E i \in 1..Len(handler[h].log) : handler[h].log[i] = Render(text)

\* C21: an event during whose handling the store was unavailable is failed:
\* after a failed state read the only screen rendered is the generic apology
\* (free text of a user whose persisted state is ADMIN is not echoed), and
\* after a failed state write the admin menu is not rendered
C21_StoreFailureFailsEvent ==
    \A h \in Tasks :
        /\ ReadFailed(h) => Calls(h) = << Render("error") >>
        /\ WriteFailed(h) => ~Rendered(h, "admin_menu")


AddUserReturned(u, n) ==
    returned' = Result("add_user", u, n, TRUE, returned'.value)

\* C22, rows: a user has a row with name columns exactly when they have a row
\* with a state, one row per user identifier
C22_OneRow == \A u \in Users : (users[u] = "absent") <=> (names[u] = "none")

\* C22, step: an add_user that the store carries out creates the row in state
\* MAIN on first contact, leaves the state of an existing row as it is (ADMIN
\* stays ADMIN), writes the name columns of this call, returns the state of
\* the row, and touches no row of another user
C22_UpsertStep ==
    \A u \in Users, n \in Names :
        AddUserReturned(u, n) =>
            /\ users'[u] = IF users[u] = "absent" THEN "main" ELSE users[u]
            /\ names'[u] = n
            /\ returned'.value = users'[u]
            /\ \A v \in Users \ {u} : users'[v] = users[v] /\ names'[v] = names[v]

\* C22: repeated add_user calls for one user keep exactly one record for the
\* identifier, preserve the state of an existing record, replace its name
\* fields with the values of the latest call, and create the record in MAIN
\* on first contact
C22_UpsertOnRecontact == [](C22_OneRow) /\ [][C22_UpsertStep]_vars

C22_Witness ==
    \E u \in Users :
        /\ returned = Result("add_user", u, "name_b", TRUE, "admin")
        /\ users[u] = "admin" /\ names[u] = "name_b"
        /\ \E v \in Users \ {u} : users[v] = "main" /\ names[v] = "name_a"


\* C23, values: no row ever holds AWAITING_INPUT
C23_AwaitingInputUnreachable == \A u \in Users : users[u] # "awaiting_input"

\* C23, steps: a step that changes the conversation state the store holds for
\* a user (MAIN for a user without a row) is a step of a handler of that user,
\* and takes it from MAIN to ADMIN in the handler of /admin or admin_panel or
\* from ADMIN to MAIN in the handler of admin_back_to_main
C23_LegalStep ==
    \A u \in Users :
        get_user_state(u)' # get_user_state(u) =>
            \E h \in Tasks :
                /\ handler[h].user = u /\ handler[h].pc = "run"
                /\ \/ /\ get_user_state(u) = "main" /\ get_user_state(u)' = "admin"
                      /\ handler[h].ev \in {"admin", "admin_panel"}
                   \/ /\ get_user_state(u) = "admin" /\ get_user_state(u)' = "main"
                      /\ handler[h].ev = "admin_back_to_main"

\* C23: the only changes handlers make to a persisted conversation state are
\* MAIN -> ADMIN on admin entry and ADMIN -> MAIN on admin_back_to_main, and
\* AWAITING_INPUT is never reached
C23_LegalTransitionsOnly == [](C23_AwaitingInputUnreachable) /\ [][C23_LegalStep]_vars

C23_Witness ==
    \E h \in Tasks :
        /\ handler[h].ev = "admin_back_to_main" /\ handler[h].user_state = "admin"
        /\ handler[h].wrote /\ users[handler[h].user] = "main"
        /\ handler[h].pc = "done" /\ ~handler[h].raised


\* the middleware has handed the event to its handler, which has made no
\* call yet: the store is as it was when the handling began
Entered(h) == handler[h].pc = "run" /\ handler[h].log = <<>>

\* C24: with events handled one after another, the user_state a handler is
\* entered with is the conversation state the store holds for the user when
\* the handling of the event begins, whatever earlier events were handed
C24_FreshStatePerEvent ==
    \A h \in Tasks :
        Entered(h) => handler[h].user_state = get_user_state(handler[h].user)


\* send_or_edit_message of coroutine t returns its message in this step
RenderReturnsOk(t) ==
    /\ task[t].op = "send_or_edit" /\ task[t].pc # "done"
    /\ task'[t].pc = "done" /\ task'[t].result = "ok"

\* C25, store: the step in which send_or_edit_message returns successfully
\* leaves as the user's handle the identifier the transport call returned:
\* after an edit the identifier of the edited message, which was the handle
\* the call found, after a send the identifier of the message sent
C25_StoredOnReturn ==
    \A t \in Tasks :
        RenderReturnsOk(t) =>
            /\ task[t].mid \in MsgIds
            /\ user_messages'[task[t].user] = task[t].mid
            /\ task'[t].mid = task[t].mid
            /\ task[t].pc = (IF HasSend(task[t].log) THEN "send_returned" ELSE "edit_returned")

\* C25, send: the identifier a successful bot.send_message returns is that of
\* a message new in the user's chat
C25_SentIsNew ==
    \A t \in Tasks :
        (task[t].pc = "await_send" /\ task'[t].pc = "send_returned" /\ task'[t].ok)
            => /\ task'[t].mid \notin visible[task[t].user]
               /\ task'[t].mid \in visible'[task[t].user]

\* C25: whenever send_or_edit_message returns successfully for a user, the
\* stored handle of the user is the identifier of the message just edited or
\* just sent
C25_HandleTracksLatest == [][C25_StoredOnReturn /\ C25_SentIsNew]_vars

C25_Witness ==
    \E t, s \in Tasks :
        /\ task[t].op = "send_or_edit" /\ task[t].pc = "done" /\ task[t].result = "ok"
        /\ task[t].log = << "edit" >> /\ user_messages[task[t].user] = task[t].mid
        /\ task[s].op = "send_or_edit" /\ task[s].pc = "done" /\ task[s].result = "ok"
        /\ task[s].log = << "send" >> /\ user_messages[task[s].user] = task[s].mid
        /\ task[s].user # task[t].user


\* the best-effort deletion of coroutine t failed and t resumes in this step
FailedDeleteResumes(t) ==
    /\ task[t].pc = "delete_returned" /\ ~task[t].ok
    /\ task'[t].pc # "delete_returned"

\* C26, failure: when the deletion failed, the step that resumes the caller
\* discards the user's handle all the same and raises nothing:
\* delete_previous_message called directly returns normally, and the
\* edit-failure fallback goes on to send the replacement
C26_FailedDeleteStep ==
    \A t \in Tasks :
        FailedDeleteResumes(t) =>
            /\ user_messages'[task[t].user] = None
            /\ IF task[t].op = "send_or_edit"
                 THEN task'[t].pc = "await_send"
                      /\ task'[t].log = << "edit", "delete", "send" >>
                 ELSE task'[t].pc = "done" /\ task'[t].result = "ok"

\* C26, replacement: a fallback that has been through the deletion, failed or
\* not, stores the identifier of the replacement once its send succeeds
C26_ReplacementStored ==
    \A t \in Tasks :
        (/\ task[t].log = << "edit", "delete", "send" >>
         /\ task[t].pc = "send_returned" /\ task[t].ok /\ task'[t].pc # "send_returned")
            => /\ task'[t].pc = "done" /\ task'[t].result = "ok"
               /\ user_messages'[task[t].user] = task[t].mid

\* C26: a failed best-effort deletion, in the edit-failure fallback or in
\* delete_previous_message called directly, still discards the stale handle,
\* lets no error reach the caller, and in the fallback the replacement is
\* still sent and stored as the new handle
C26_DeletionErrorsIgnored == [][C26_FailedDeleteStep /\ C26_ReplacementStored]_vars

\* the fallback's deletion failed (the old message is still in the chat), the
\* handle is gone and the replacement is being sent
C26_Witness ==
    \E t \in Tasks :
        /\ task[t].pc = "await_send" /\ ~task[t].ok
        /\ task[t].log = << "edit", "delete", "send" >>
        /\ user_messages[task[t].user] = None
        /\ Cardinality(visible[task[t].user]) = 1
        /\ \A s \in Tasks \ {t} : task[s].pc = "idle"


Unknown(u) == users[u] \notin UserState

\* C27, reads: get_user_state and add_user return a value of UserState
\* whatever the row holds, and MAIN for a user whose stored state string is
\* not a value of UserState or who has no row
C27_ReadsMain ==
    \A u \in Users :
        /\ get_user_state(u) \in UserState /\ add_user_returns(u) \in UserState
        /\ Unknown(u) => (get_user_state(u) = "main" /\ add_user_returns(u) = "main")

\* C27, event: the event of such a user is handled, by the handler it is
\* routed to for a user in MAIN
C27_Handled ==
    \A h \in Tasks :
        (Entered(h) /\ Unknown(handler[h].user)) =>
            /\ handler[h].user_state = "main" /\ ~handler[h].raised
            /\ handler[h].todo = Route(handler[h].ev, handler[h].user, "main")

\* C27: an unknown stored state string, like a missing row, reads as MAIN
\* instead of failing the read, and the event is handled
C27_UnknownDefaultsToMain == C27_ReadsMain /\ C27_Handled

C27_Witness ==
    \E h \in Tasks :
        /\ handler[h].ev = "text" /\ users[handler[h].user] = "legacy"
        /\ handler[h].pc = "done" /\ ~handler[h].raised
        /\ handler[h].log = << Render("echo") >>


\* C28, restart: a restart leaves no user with a handle and leaves the users
\* table and the chats as they were
C28_RestartStep ==
    restart =>
        /\ \A u \in Users : user_messages'[u] = None
        /\ users' = users /\ names' = names
        /\ visible' = visible /\ nextId' = nextId

\* C28, first render: the first send_or_edit_message called for a user after
\* a restart goes to send a new message; it attempts no edit and no deletion
C28_FirstRenderSends ==
    \A t \in Tasks, u \in Users :
        (/\ cleared[u] = "yes" /\ task[t].pc = "idle"
         /\ task'[t].op = "send_or_edit" /\ task'[t].user = u)
            => (task'[t].pc = "await_send" /\ task'[t].log = << "send" >>)

\* C28, handle: when the send of a render that only sent succeeds, the
\* identifier of the message sent is stored as the user's handle
C28_FirstRenderStores ==
    \A t \in Tasks :
        (/\ task[t].pc = "send_returned" /\ task[t].ok /\ task'[t].pc # "send_returned"
         /\ task[t].log = << "send" >> /\ cleared[task[t].user] = "used")
            => \/ restart
               \/ /\ task'[t].pc = "done" /\ task'[t].result = "ok"
                  /\ task'[t].log = << "send" >>
                  /\ user_messages'[task[t].user] = task[t].mid

\* C28: a process restart empties the handle map and keeps the persisted
\* user state; the first render of a user after it sends a fresh message,
\* with no edit or deletion attempted, and stores its identifier as the handle
C28_RestartLosesHandles ==
    [][C28_RestartStep /\ C28_FirstRenderSends /\ C28_FirstRenderStores]_vars

C28_Witness ==
    \E t \in Tasks :
        /\ task[t].op = "send_or_edit" /\ task[t].pc = "done" /\ task[t].result = "ok"
        /\ task[t].log = << "send" >> /\ cleared[task[t].user] = "used"
        /\ user_messages[task[t].user] = task[t].mid
        /\ users[task[t].user] = "admin"
        /\ Cardinality(visible[task[t].user]) = 2
        /\ \A s \in Tasks \ {t} : task[s].pc = "idle"


Tried(c) == c.try
\* the handler has shown a split user list and nothing in it raised
SplitListShown(h) ==
    /\ handler[h].pc = "done" /\ ~handler[h].raised
    /\ SelectSeq(handler[h].log, NotTried) \in {<<>>, << Answer("") >>}
    /\ SelectSeq(handler[h].log, Tried) = show_all_users_split

\* C29: when show_all_users has split the list into parts and all of its
\* calls have succeeded, every part is on display in the administrator's
\* chat, each in a message of its own
C29_EveryPartVisible ==
    \A h \in Tasks :
        SplitListShown(h) =>
            \A i \in 1..Len(PartTexts) :
                \E m \in visible[handler[h].user] : content[m] = PartTexts[i]


IsAnswer(c) == c.call = "answer"
Answers(h) == SelectSeq(handler[h].log, IsAnswer)

\* C30: no callback is ever answered twice, and the handler of a callback
\* that has finished without an exception has answered the callback query
\* exactly once, as its last call: with the denial notice when it denied an
\* admin action, without text in every other branch, unknown data included
C30_AnsweredOnce ==
    \A h \in Tasks :
        handler[h].ev \in Callbacks =>
            /\ Len(Answers(h)) <= 1
            /\ (handler[h].pc = "done" /\ ~handler[h].raised) =>
                  /\ Len(Answers(h)) = 1
                  /\ handler[h].log[Len(handler[h].log)] = Answers(h)[1]
                  /\ Answers(h)[1] =
                        Answer(IF DeniedCallback(handler[h]) THEN "denied" ELSE "")

C30_Witness ==
    \E h \in Tasks :
        /\ handler[h].ev = "unknown_token" /\ handler[h].pc = "done"
        /\ ~handler[h].raised /\ handler[h].log = << Answer("") >>
        /\ Live(handler[h].user)

====
